---- MODULE Spec2Model ----
(***************************************************************************)
(* Model of github.com/maxbolgarin/datetime: the UTC-offset parser and the *)
(* Timezone value built on it (timezone.go) and the wall-clock Time        *)
(* arithmetic (time.go).                                                   *)
(*                                                                         *)
(* A Go string is a sequence of one-character strings: "UTC+3" is          *)
(* <<"U","T","C","+","3">>.                                                *)
(***************************************************************************)
EXTENDS Integers, Sequences, FiniteSets, TLC

VARIABLES
    form,    \* ParseUTCOffset: the shape of the string, when it is a well-formed one
    input,   \* ParseUTCOffset: the string handed to the call
    res,     \* ParseUTCOffset: what the last call returned
    first,   \* ParseUTCOffset: what the call before the re-parse returned
    pc,      \* ParseUTCOffset: which call has acted last
    tz,      \* Timezone: the value held by the caller
    tzOp,    \* Timezone: the last call made on or into tz
    tzArg,   \* Timezone: the string handed to that call
    tzRet,   \* Timezone: how that call ended: "ok", "err" or "panic"
    t,       \* Time: the receiver of the call
    arg,     \* Time: the Time handed to the call
    d,       \* Time: the duration handed to the call, in minutes
    mid,     \* Time: the Time returned by the first call of a chain
    out,     \* Time: the Time returned by the last call
    outDur,  \* Time: the duration or the count of minutes returned by the last call
    tmOp,    \* Time: the last call made
    dayStart, \* Time: the day start handed to GetTimeSortingPriority
    prio,    \* Time: the SortingPriority returned by the last call
    cmp,     \* Time: what the comparison methods returned
    tmForm,  \* ParseTime: the shape of the string, when it is a well-formed one
    tmStr,   \* ParseTime: the string handed to the call
    tmRet,   \* ParseTime, UnmarshalJSON: how the call ended: "ok" or "err"
    tmJSON   \* MarshalJSON: the JSON text returned

vars ==
    <<form, input, res, first, pc, tz, tzOp, tzArg, tzRet,
      t, arg, d, mid, out, outDur, tmOp,
      dayStart, prio, cmp, tmForm, tmStr, tmRet, tmJSON>>

laterTimeVars == <<dayStart, prio, cmp, tmForm, tmStr, tmRet, tmJSON>>

timeVars == <<t, arg, d, mid, out, outDur, tmOp, laterTimeVars>>

offsetVars == <<form, input, res, first, pc>>

timezoneVars == <<tz, tzOp, tzArg, tzRet>>

(***************************************************************************)
(* Bounds of the model.                                                    *)
(***************************************************************************)
\* longest free-form string handed to the parsers
MaxLen == 4
\* largest hour count of a well-formed offset string
MaxH == 16
\* largest minute count of a well-formed offset string
MaxM == 60
\* largest zone offset of a time.Time handed to NewTimezoneFromTime, in
\* quarters of an hour
MaxQuarters == 56
\* longest duration handed to AddTime and SubTime, in minutes, and the step
\* between the durations tried
MaxDuration == 3000
DurationStep == 29
\* the step between the minutes of the Times handed as arguments
MinuteStep == 4
\* the step between the hours of the current times and day starts handed to
\* GetTimeSortingPriority
HourStep == 6
\* the largest hour and minute of the well-formed times handed to ParseTime
MaxTimeH == 24
MaxTimeM == 60
\* the days before and after time.Date(0, 0, 0, ...) a sequence of calls is
\* followed through
MaxDays == 2

(***************************************************************************)
(* Strings and the library calls the code makes on them.                   *)
(***************************************************************************)
Digits == <<"0", "1", "2", "3", "4", "5", "6", "7", "8", "9">>

DigitSet == {Digits[i] : i \in 1..Len(Digits)}

DigitVal(c) == (CHOOSE i \in 1..Len(Digits) : Digits[i] = c) - 1

UTC == <<"U", "T", "C">>

\* strconv.Itoa / the %d verb, for n >= 0
RECURSIVE Itoa(_)
Itoa(n) ==
    IF n < 10 THEN <<Digits[n + 1]>>
    ELSE Itoa(n \div 10) \o <<Digits[(n % 10) + 1]>>

\* the value of a run of decimal digits
RECURSIVE DigitsVal(_)
DigitsVal(s) ==
    IF Len(s) = 0 THEN 0
    ELSE 10 * DigitsVal(SubSeq(s, 1, Len(s) - 1)) + DigitVal(s[Len(s)])

\* strconv.Atoi: an optional sign, then one or more decimal digits; anything
\* else is an error.  (No string of the model is long enough to overflow.)
Atoi(s) ==
    LET signed == Len(s) > 0 /\ s[1] \in {"+", "-"}
        body   == IF signed THEN Tail(s) ELSE s
    IN  IF Len(body) = 0 \/ \E i \in 1..Len(body) : body[i] \notin DigitSet
        THEN [err |-> TRUE, val |-> 0]
        ELSE [err |-> FALSE,
              val |-> IF signed /\ s[1] = "-" THEN 0 - DigitsVal(body)
                      ELSE DigitsVal(body)]

\* strings.Index: the 1-based place of the first occurrence of old in s, 0 if none
Index(s, old) ==
    LET hits == {i \in 1..(Len(s) - Len(old) + 1) :
                    SubSeq(s, i, i + Len(old) - 1) = old}
    IN  IF hits = {} THEN 0 ELSE CHOOSE i \in hits : \A j \in hits : i <= j

\* strings.Replace(s, old, new, 1)
ReplaceFirst(s, old, new) ==
    LET i == Index(s, old)
    IN  IF i = 0 THEN s
        ELSE SubSeq(s, 1, i - 1) \o new \o SubSeq(s, i + Len(old), Len(s))

\* strings.TrimSpace (the space is the only white space of the model's alphabet)
RECURSIVE TrimLeft(_)
TrimLeft(s) == IF Len(s) > 0 /\ s[1] = " " THEN TrimLeft(Tail(s)) ELSE s

RECURSIVE TrimRight(_)
TrimRight(s) ==
    IF Len(s) > 0 /\ s[Len(s)] = " " THEN TrimRight(SubSeq(s, 1, Len(s) - 1)) ELSE s

TrimSpace(s) == TrimRight(TrimLeft(s))

\* strings.Split(s, sep) for a one-character separator
RECURSIVE Split(_, _)
Split(s, sep) ==
    LET i == Index(s, <<sep>>)
    IN  IF i = 0 THEN <<s>>
        ELSE <<SubSeq(s, 1, i - 1)>> \o Split(SubSeq(s, i + 1, Len(s)), sep)

\* time.FixedZone(name, offset)
FixedZone(name, offset) == [name |-> name, offset |-> offset]

(***************************************************************************)
(* timezone.go: ParseUTCOffset                                             *)
(***************************************************************************)
isEqual(n, ns) == n \in ns

\* what a call returns: a location and no error, an error, or a run-time panic
Ok(loc) == [kind |-> "ok", loc |-> loc]

Failed == [kind |-> "err", loc |-> FixedZone(<<>>, 0)]

Panicked == [kind |-> "panic", loc |-> FixedZone(<<>>, 0)]

\* HoursThreshold with the threshold of '-' forgotten
HoursThresholdSameForBoth(sign) == 14

\* the hour threshold of a sign
HoursThreshold(sign) == IF sign = "-" THEN 12 ELSE 14

\* the hours allowed with 30 minutes, per sign
HalfHourHours(sign) == IF sign = "+" THEN {3, 4, 5, 6, 9, 10} ELSE {3, 9}

\* the hours allowed with 45 minutes (sign '+' only)
ThreeQuarterHours == {5, 8, 12}

\* the loop over the separators " " and ":" : the two tokens, or an error
SplitTokens(in) ==
    LET bySpace == Split(in, " ")
        byColon == Split(in, ":")
    IN  IF Len(bySpace) = 2
        THEN [err |-> FALSE, hours |-> bySpace[1], minutes |-> bySpace[2]]
        ELSE IF Len(bySpace) > 2
        THEN [err |-> TRUE, hours |-> <<>>, minutes |-> <<>>]
        ELSE IF Len(byColon) = 2
        THEN [err |-> FALSE, hours |-> byColon[1], minutes |-> byColon[2]]
        ELSE IF Len(byColon) > 2
        THEN [err |-> TRUE, hours |-> <<>>, minutes |-> <<>>]
        ELSE [err |-> FALSE, hours |-> byColon[1], minutes |-> <<"0">>]

\* LocName writing the minutes only when they are above 30
LocNameMinutesAbove30(sign, hours, minutes, minutesInt) ==
    UTC \o <<sign>> \o hours
        \o (IF minutesInt > 30 THEN <<":">> \o minutes ELSE <<>>)

\* the name of the location: "UTC", the sign, the hours token and, when the
\* minutes are not zero, ":" and the minutes token
LocName(sign, hours, minutes, minutesInt) ==
    UTC \o <<sign>> \o hours
        \o (IF minutesInt > 0 THEN <<":">> \o minutes ELSE <<>>)

\* the checks on the two tokens and the location built from them
Validate(sign, hours, minutes) ==
    LET h == Atoi(hours)
        m == Atoi(minutes)
        signInt == IF sign = "-" THEN 0 - 1 ELSE 1
        name == LocName(sign, hours, minutes, m.val)
    IN  IF h.err THEN Failed
        ELSE IF h.val > HoursThreshold(sign) THEN Failed
        ELSE IF m.err THEN Failed
        ELSE IF ~isEqual(m.val, {0, 30, 45}) THEN Failed
        ELSE IF m.val = 30 /\ ~isEqual(h.val, HalfHourHours(sign)) THEN Failed
        ELSE IF m.val = 45 /\ sign = "-" THEN Failed
        ELSE IF m.val = 45 /\ ~isEqual(h.val, ThreeQuarterHours) THEN Failed
        ELSE Ok(FixedZone(name, signInt * h.val * 60 * 60 + signInt * m.val * 60))

ParseUTCOffset(in0) ==
    IF Len(in0) = 0 THEN Failed
    ELSE LET in1 == TrimSpace(ReplaceFirst(in0, UTC, <<>>))
         IN  IF Len(in1) = 0 THEN Panicked     \* input[0] of an empty string
             ELSE LET hasSign == in1[1] \in {"+", "-"}
                      sign    == IF hasSign THEN in1[1] ELSE "+"
                      in2     == IF hasSign THEN Tail(in1) ELSE in1
                      tok     == SplitTokens(in2)
                  IN  IF hasSign /\ Len(in1) = 1 THEN Failed
                      ELSE IF tok.err THEN Failed
                      ELSE Validate(sign, tok.hours, tok.minutes)

(***************************************************************************)
(* timezone.go: Timezone                                                   *)
(***************************************************************************)
\* Timezone{}: no location, offset 0
ZeroTimezone == [hasLoc |-> FALSE, loc |-> FixedZone(<<>>, 0), offset |-> 0]

Timezone(loc, offset) == [hasLoc |-> TRUE, loc |-> loc, offset |-> offset]

\* NewTimezoneFromTime(t), for a t whose Zone() offset is zoneOffset
NewTimezoneFromTime(zoneOffset) ==
    LET sign    == IF zoneOffset < 0 THEN "-" ELSE "+"
        offset  == IF zoneOffset < 0 THEN 0 - zoneOffset ELSE zoneOffset
        hours   == offset \div 3600
        minutes == (offset % 3600) \div 60
    IN  IF hours = 0
        THEN Timezone(FixedZone(UTC, offset), zoneOffset)
        ELSE IF minutes = 0
        THEN Timezone(FixedZone(UTC \o <<sign>> \o Itoa(hours), offset), zoneOffset)
        ELSE Timezone(FixedZone(UTC \o <<sign>> \o Itoa(hours) \o <<":">>
                                    \o Itoa(minutes), offset), zoneOffset)

\* NewTimezone(loc): the zone offset of time.Now().In(loc); a nil loc is UTC
NewTimezone(hasLoc, loc) ==
    NewTimezoneFromTime(IF hasLoc THEN loc.offset ELSE 0)

\* the zone database behind time.LoadLocation: the names it resolves, with
\* their offsets
ZoneDB == {FixedZone(UTC, 0), FixedZone(<<"E", "S", "T">>, 0 - 18000)}

ZoneNames == {z.name : z \in ZoneDB}

\* time.LoadLocation(s)
LoadLocation(s) ==
    IF s \in ZoneNames
    THEN Ok(CHOOSE z \in ZoneDB : z.name = s)
    ELSE Failed

\* ParseTimezone(s): the Timezone and how the call ended
ParseTimezone(s) ==
    IF Len(s) < 3 THEN [ret |-> "err", tz |-> ZeroTimezone]
    ELSE LET named  == LoadLocation(s)
             parsed == IF named.kind = "ok" THEN named ELSE ParseUTCOffset(s)
         IN  IF parsed.kind = "ok"
             THEN [ret |-> "ok", tz |-> NewTimezone(TRUE, parsed.loc)]
             ELSE [ret |-> parsed.kind, tz |-> ZeroTimezone]

\* Timezone.Loc()
Loc(i) == i.loc

\* Timezone.Offset()
Offset(i) == i.offset

\* Timezone.String(): the name of the location; a nil *time.Location is UTC
String(i) == IF i.hasLoc THEN i.loc.name ELSE UTC

\* the JSON texts handed to UnmarshalJSON: a string, null, or a number
JSONString(s) == [kind |-> "string", s |-> s]

JSONNull == [kind |-> "null", s |-> <<>>]

JSONNumber == [kind |-> "number", s |-> <<>>]

\* json.Unmarshal(data, &s) into a string: null leaves s empty, a number is
\* an error
UnmarshalString(data) ==
    IF data.kind = "number" THEN [err |-> TRUE, s |-> <<>>]
    ELSE [err |-> FALSE, s |-> data.s]

\* Timezone.UnmarshalJSON(data) on the receiver i: the receiver afterwards and
\* how the call ended
TimezoneUnmarshalJSON(i, data) ==
    LET str == UnmarshalString(data)
        loc == ParseTimezone(str.s)
    IN  IF str.err THEN [ret |-> "err", tz |-> i]
        ELSE IF Len(str.s) = 0 THEN [ret |-> "ok", tz |-> i]
        ELSE IF loc.ret # "ok" THEN [ret |-> loc.ret, tz |-> i]
        ELSE [ret |-> "ok",
              tz |-> [hasLoc |-> loc.tz.hasLoc, loc |-> loc.tz.loc,
                      offset |-> i.offset]]

(***************************************************************************)
(* time.go: Time, a time.Time on the date time.Date(0, 0, 0, ...) and the  *)
(* flag isSet.  The time.Time is kept as abs, its distance in minutes from *)
(* 00:00 of that date: an Add may leave the date, and Hour() and Minute()  *)
(* read the clock of whatever day abs falls on.  A time.Duration is kept   *)
(* in whole minutes.                                                       *)
(***************************************************************************)
minutesInDay == 60 * 24

\* the zero time.Time, January 1 of year 1, is 398 days after
\* time.Date(0, 0, 0, 0, 0, 0, 0, time.UTC), which is November 30 of year -1
ZeroTimeAbs == 398 * minutesInDay

\* EmptyTime = Time{}
EmptyTime == [abs |-> ZeroTimeAbs, isSet |-> FALSE]

NewTime(hour, minute) == [abs |-> hour * 60 + minute, isSet |-> TRUE]

\* time.Time.Hour() and .Minute()
Hour(x) == (x.abs % minutesInDay) \div 60

Minute(x) == x.abs % 60

\* the loop "for minutes > minutesInDay { minutes -= minutesInDay }"
RECURSIVE ReduceToDay(_)
ReduceToDay(minutes) ==
    IF minutes > minutesInDay THEN ReduceToDay(minutes - minutesInDay) ELSE minutes

\* addTime keeping the flag of the receiver
addTimeKeepsFlag(x, howMuch) == [abs |-> x.abs + howMuch, isSet |-> x.isSet]

\* Time.addTime(time.Minute, howMuch)
addTime(x, howMuch) == [abs |-> x.abs + howMuch, isSet |-> TRUE]

\* Time.subTime(time.Minute, howMuch)
subTime(x, howMuch) == addTime(x, (0 - 1) * howMuch)

MinutesFromDayBegin(x, dayStartTime) ==
    LET hours == IF Hour(x) < Hour(dayStartTime)
                 THEN 24 - Hour(dayStartTime) - Hour(x)
                 ELSE Hour(x) - Hour(dayStartTime)
    IN  hours * 60 + Minute(x)

MinutesTillDayEnd(x, dayStartTime) ==
    minutesInDay - MinutesFromDayBegin(x, dayStartTime)

\* AddTime shifted by one minute past midnight
AddTimeOneTooMany(x, howMuch) ==
    LET minutes == ReduceToDay(howMuch)
        tillEnd == MinutesTillDayEnd(x, EmptyTime)
    IN  IF minutes < tillEnd THEN addTime(x, minutes)
        ELSE addTime(NewTime(0, 0), minutes - tillEnd + 1)

\* Time.AddTime(howMuch), howMuch in minutes
AddTime(x, howMuch) ==
    LET minutes == ReduceToDay(howMuch)
        tillEnd == MinutesTillDayEnd(x, EmptyTime)
    IN  IF minutes < tillEnd THEN addTime(x, minutes)
        ELSE addTime(NewTime(0, 0), minutes - tillEnd)

\* SubTime counting back from 23:59 without the "- 1"
SubTimeOneTooMany(x, howMuch) ==
    LET minutes   == ReduceToDay(howMuch)
        fromBegin == MinutesFromDayBegin(x, EmptyTime)
    IN  IF minutes < fromBegin THEN subTime(x, minutes)
        ELSE subTime(NewTime(23, 59), minutes - fromBegin)

\* Time.SubTime(howMuch), howMuch in minutes
SubTime(x, howMuch) ==
    LET minutes   == ReduceToDay(howMuch)
        fromBegin == MinutesFromDayBegin(x, EmptyTime)
    IN  IF minutes < fromBegin THEN subTime(x, minutes)
        ELSE subTime(NewTime(23, 59), minutes - fromBegin - 1)

\* Time.EqualTime(other)
EqualTime(x, other) == Hour(x) = Hour(other) /\ Minute(x) = Minute(other)

\* RangeUp without the reset of a negative hour count to 23
RangeUpNegativeHours(low, high) ==
    LET hours0 == IF Hour(high) < Hour(low)
                  THEN 24 - Hour(low) + Hour(high)
                  ELSE Hour(high) - Hour(low)
        borrow == Minute(high) < Minute(low)
        hours  == IF borrow THEN hours0 - 1 ELSE hours0
        minutes == IF borrow THEN 60 - Minute(low) + Minute(high)
                   ELSE Minute(high) - Minute(low)
    IN  hours * 60 + minutes

\* Time.RangeUp(high), in minutes
RangeUp(low, high) ==
    LET hours0 == IF Hour(high) < Hour(low)
                  THEN 24 - Hour(low) + Hour(high)
                  ELSE Hour(high) - Hour(low)
        borrow == Minute(high) < Minute(low)
        hours  == IF borrow
                  THEN (IF hours0 - 1 < 0 THEN 23 ELSE hours0 - 1)
                  ELSE hours0
        minutes == IF borrow THEN 60 - Minute(low) + Minute(high)
                   ELSE Minute(high) - Minute(low)
    IN  hours * 60 + minutes

\* SmartDiff taking the wrap-around branch on equal times
SmartDiffStrict(start, end) ==
    LET startMinutes == MinutesFromDayBegin(start, EmptyTime)
        endMinutes   == MinutesFromDayBegin(end, EmptyTime)
    IN  IF endMinutes > startMinutes THEN endMinutes - startMinutes
        ELSE endMinutes + MinutesTillDayEnd(start, EmptyTime)

\* Time.SmartDiff(end), in minutes
SmartDiff(start, end) ==
    LET startMinutes == MinutesFromDayBegin(start, EmptyTime)
        endMinutes   == MinutesFromDayBegin(end, EmptyTime)
    IN  IF endMinutes >= startMinutes THEN endMinutes - startMinutes
        ELSE endMinutes + MinutesTillDayEnd(start, EmptyTime)

(***************************************************************************)
(* The strings handed to ParseUTCOffset.                                   *)
(***************************************************************************)
\* the alphabet of the free-form strings
Alphabet == {"+", "-", " ", ":", "0", "2", "3", "a"}

RECURSIVE StringsOfLen(_)
StringsOfLen(n) ==
    IF n = 0 THEN {<<>>}
    ELSE {<<c>> \o s : c \in Alphabet, s \in StringsOfLen(n - 1)}

FreeStrings == UNION {StringsOfLen(n) : n \in 0..MaxLen}

\* a decimal integer, zero-padded to two digits when pad is set
Number(n, pad) == IF pad /\ n < 10 THEN <<"0">> \o Itoa(n) ELSE Itoa(n)

\* [UTC][sign]H[sep M]; sep = "" leaves the minutes out
FormString(utc, sign, h, sep, m, pad) ==
    utc \o sign \o Number(h, pad)
        \o (IF sep = "" THEN <<>> ELSE <<sep>> \o Number(m, pad))

FormParams ==
    {p \in [utc : {<<>>, UTC}, sign : {<<>>, <<"+">>, <<"-">>}, h : 0..MaxH,
             sep : {"", " ", ":"}, m : 0..MaxM, pad : BOOLEAN] :
        p.sep = "" => p.m = 0}

FormOf(p) == FormString(p.utc, p.sign, p.h, p.sep, p.m, p.pad)

\* the shape of a string that is not one of the well-formed ones
NoForm ==
    [utc |-> <<>>, sign |-> <<>>, h |-> 0 - 1, sep |-> "", m |-> 0, pad |-> FALSE]

FreeInputs == FreeStrings \cup {UTC \o s : s \in FreeStrings}

(***************************************************************************)
(* The offset parser as a state machine: one call, then a second call on   *)
(* the name of the location the first one returned.                        *)
(***************************************************************************)
NoResult == [kind |-> "none", loc |-> FixedZone(<<>>, 0)]

OffsetIdle ==
    /\ form = NoForm
    /\ input = <<>>
    /\ res = NoResult
    /\ first = NoResult
    /\ pc = "idle"

TimezoneIdle ==
    /\ tz = ZeroTimezone
    /\ tzOp = "idle"
    /\ tzArg = <<>>
    /\ tzRet = "ok"

\* the shape of a string that is not one of the well-formed times
NoTimeForm == [h |-> 0 - 1, sep |-> "", m |-> 0, padH |-> FALSE, padM |-> FALSE]

\* no comparison made
NoCmp ==
    [EqualTime |-> FALSE, IsBefore |-> FALSE, IsArgBefore |-> FALSE,
     IsBeforeStrict |-> FALSE, IsArgBeforeStrict |-> FALSE, IsAfter |-> FALSE,
     IsArgAfter |-> FALSE, IsAfterStrict |-> FALSE, IsArgAfterStrict |-> FALSE]

LaterTimeIdle ==
    /\ dayStart = EmptyTime
    /\ prio = 0
    /\ cmp = NoCmp
    /\ tmForm = NoTimeForm
    /\ tmStr = <<>>
    /\ tmRet = "ok"
    /\ tmJSON = JSONNull

TimeIdle ==
    /\ t = EmptyTime
    /\ arg = EmptyTime
    /\ d = 0
    /\ mid = EmptyTime
    /\ out = EmptyTime
    /\ outDur = 0
    /\ tmOp = "idle"
    /\ LaterTimeIdle

InitOffset ==
    /\ TimezoneIdle
    /\ TimeIdle
    /\ \/ form = NoForm /\ input \in FreeInputs
       \/ form \in FormParams /\ input = FormOf(form)
    /\ res = NoResult
    /\ first = NoResult
    /\ pc = "start"

CallParseUTCOffset ==
    /\ pc = "start"
    /\ res' = ParseUTCOffset(input)
    /\ pc' = "parsed"
    /\ UNCHANGED <<form, input, first>>
    /\ UNCHANGED <<timezoneVars, timeVars>>

\* ParseUTCOffset(loc.String()) on the location of a successful call
Reparse ==
    /\ pc = "parsed"
    /\ res.kind = "ok"
    /\ first' = res
    /\ form' = NoForm
    /\ input' = res.loc.name
    /\ res' = ParseUTCOffset(res.loc.name)
    /\ pc' = "reparsed"
    /\ UNCHANGED <<timezoneVars, timeVars>>

NextOffset == CallParseUTCOffset \/ Reparse

SpecOffset == InitOffset /\ [][NextOffset]_vars

(***************************************************************************)
(* The Timezone held by a caller: declared as the zero value, then built   *)
(* by one of the constructors (which do not read the value they replace),  *)
(* then unmarshalled into any number of times.                             *)
(***************************************************************************)
\* the zone offsets of the times and locations handed to the constructors
ZoneOffsets == {q * 900 : q \in (0 - MaxQuarters)..MaxQuarters}

\* the strings handed to ParseTimezone
TimezoneInputs ==
    {s \in FreeStrings : Len(s) < MaxLen} \cup ZoneNames
        \cup {FormOf(p) : p \in {q \in FormParams : q.m \in {0, 15, 30, 45}}}

\* the JSON texts handed to Timezone.UnmarshalJSON
TimezoneJSON ==
    {JSONNull, JSONNumber}
        \cup {JSONString(s) :
                s \in {<<>>, <<"+", "3">>, <<"a", "a", "a">>, <<" ", " ", " ">>,
                       <<"E", "S", "T">>, UTC,
                       UTC \o <<"+", "2">>, UTC \o <<"-", "3", ":", "3", "0">>,
                       UTC \o <<"+", "0", "2", ":", "0", "0">>,
                       UTC \o <<"-", "1", "5", ":", "0", "0">>}}

InitTimezone ==
    /\ OffsetIdle
    /\ TimeIdle
    /\ tz = ZeroTimezone
    /\ tzOp = "start"
    /\ tzArg = <<>>
    /\ tzRet = "ok"

CallNewTimezone ==
    /\ tzOp = "start"
    /\ \E hasLoc \in BOOLEAN, o \in ZoneOffsets :
          tz' = NewTimezone(hasLoc, FixedZone(<<"T", "e", "s", "t">>, o))
    /\ tzOp' = "NewTimezone"
    /\ tzArg' = <<>>
    /\ tzRet' = "ok"
    /\ UNCHANGED <<offsetVars, timeVars>>

CallNewTimezoneFromTime ==
    /\ tzOp = "start"
    /\ \E o \in ZoneOffsets : tz' = NewTimezoneFromTime(o)
    /\ tzOp' = "NewTimezoneFromTime"
    /\ tzArg' = <<>>
    /\ tzRet' = "ok"
    /\ UNCHANGED <<offsetVars, timeVars>>

\* tz, err := ParseTimezone(s); a panic leaves tz as it was
CallParseTimezone ==
    /\ tzOp = "start"
    /\ \E s \in TimezoneInputs :
          LET r == ParseTimezone(s)
          IN  /\ tz' = IF r.ret = "panic" THEN tz ELSE r.tz
              /\ tzArg' = s
              /\ tzRet' = r.ret
    /\ tzOp' = "ParseTimezone"
    /\ UNCHANGED <<offsetVars, timeVars>>

\* err := json.Unmarshal(data, &tz)
CallTimezoneUnmarshalJSON ==
    /\ tzRet # "panic"
    /\ \E data \in TimezoneJSON :
          LET r == TimezoneUnmarshalJSON(tz, data)
          IN  /\ tz' = r.tz
              /\ tzArg' = data.s
              /\ tzRet' = r.ret
    /\ tzOp' = "UnmarshalJSON"
    /\ UNCHANGED <<offsetVars, timeVars>>

NextTimezone ==
    \/ CallNewTimezone
    \/ CallNewTimezoneFromTime
    \/ CallParseTimezone
    \/ CallTimezoneUnmarshalJSON

SpecTimezone == InitTimezone /\ [][NextTimezone]_vars

(***************************************************************************)
(* Time: a receiver, and one call (or one chain of calls) on it.           *)
(***************************************************************************)
\* every time of day, and the empty Time
Receivers == {NewTime(h, m) : h \in 0..23, m \in 0..59} \cup {EmptyTime}

\* the Times handed as arguments
ArgMinutes == {m \in 0..59 : m % MinuteStep = 0} \cup {1, 59}

ArgTimes == {NewTime(h, m) : h \in 0..23, m \in ArgMinutes} \cup {EmptyTime}

\* the durations handed to AddTime and SubTime, in minutes: the ones of the
\* tests, the ones around a day and two days, and a grid up to MaxDuration,
\* in both directions
PositiveDurations ==
    {0, 1, 15, 60, 1425, 1439, 1440, 1441, 1500, 2879, 2880, 2881}
        \cup {n \in 0..MaxDuration : n % DurationStep = 0}

Durations == PositiveDurations \cup {0 - n : n \in PositiveDurations}

InitTime ==
    /\ OffsetIdle
    /\ TimezoneIdle
    /\ t \in Receivers
    /\ arg = EmptyTime
    /\ d = 0
    /\ mid = EmptyTime
    /\ out = EmptyTime
    /\ outDur = 0
    /\ tmOp = "start"
    /\ LaterTimeIdle

CallAddTime ==
    /\ tmOp = "start"
    /\ \E n \in Durations :
          /\ d' = n
          /\ out' = AddTime(t, n)
    /\ tmOp' = "AddTime"
    /\ UNCHANGED <<t, arg, mid, outDur, offsetVars, timezoneVars, laterTimeVars>>

CallSubTime ==
    /\ tmOp = "start"
    /\ \E n \in Durations :
          /\ d' = n
          /\ out' = SubTime(t, n)
    /\ tmOp' = "SubTime"
    /\ UNCHANGED <<t, arg, mid, outDur, offsetVars, timezoneVars, laterTimeVars>>

\* t.AddTime(d).SubTime(d): the second call of the chain
CallSubTimeAfterAddTime ==
    /\ tmOp = "AddTime"
    /\ mid' = out
    /\ out' = SubTime(out, d)
    /\ tmOp' = "AddTime.SubTime"
    /\ UNCHANGED <<t, arg, d, outDur, offsetVars, timezoneVars, laterTimeVars>>

NextTimeArith == CallAddTime \/ CallSubTime \/ CallSubTimeAfterAddTime

SpecTimeArith == InitTime /\ [][NextTimeArith]_vars

CallRangeUp ==
    /\ tmOp = "start"
    /\ \E high \in ArgTimes :
          /\ arg' = high
          /\ outDur' = RangeUp(t, high)
    /\ tmOp' = "RangeUp"
    /\ UNCHANGED <<t, d, mid, out, offsetVars, timezoneVars, laterTimeVars>>

CallSmartDiff ==
    /\ tmOp = "start"
    /\ \E end \in ArgTimes :
          /\ arg' = end
          /\ outDur' = SmartDiff(t, end)
    /\ tmOp' = "SmartDiff"
    /\ UNCHANGED <<t, d, mid, out, offsetVars, timezoneVars, laterTimeVars>>

NextTimeRange == CallRangeUp \/ CallSmartDiff

SpecTimeRange == InitTime /\ [][NextTimeRange]_vars

(***************************************************************************)
(* Properties of ParseUTCOffset.                                           *)
(***************************************************************************)
\* the offsets, in seconds, of the half-hour and three-quarter-hour zones
FractionalOffsets ==
    {12600, 16200, 19800, 23400, 34200, 37800, 0 - 12600, 0 - 34200,
     20700, 31500, 45900}

RealOffset(o) ==
    /\ o >= 0 - 12 * 3600
    /\ o <= 14 * 3600
    /\ (o % 3600 = 0 \/ o \in FractionalOffsets)

\* C1: whenever ParseUTCOffset returns no error, the offset of the returned
\* location is a real-world UTC offset: between -12h and +14h, and a whole
\* number of hours or one of the listed half- and three-quarter-hour offsets.
C1_OnlyRealOffsets ==
    (pc # "start" /\ res.kind = "ok") => RealOffset(res.loc.offset)

\* the cases of C3: the empty string, a string that is empty once "UTC" and
\* the surrounding white space are removed, and a bare sign
NothingToParse(s) ==
    \/ Len(s) = 0
    \/ TrimSpace(ReplaceFirst(s, UTC, <<>>)) \in {<<>>, <<"+">>, <<"-">>}

\* C3: on an input that is empty, that is empty after "UTC" and white space
\* are removed, or that is a bare sign, ParseUTCOffset returns an error (it
\* does not panic).
C3_ErrorOnNothingToParse ==
    (pc = "parsed" /\ NothingToParse(input)) => res.kind = "err"

\* the minutes of a well-formed string: 0 when it has no separator
FormMinutes(p) == IF p.sep = "" THEN 0 ELSE p.m

FormNegative(p) == p.sign = <<"-">>

\* the well-formed strings that the validation rules accept
FormAccepted(p) ==
    /\ p.h <= (IF FormNegative(p) THEN 12 ELSE 14)
    /\ FormMinutes(p) \in {0, 30, 45}
    /\ FormMinutes(p) = 30 =>
           p.h \in (IF FormNegative(p) THEN {3, 9} ELSE {3, 4, 5, 6, 9, 10})
    /\ FormMinutes(p) = 45 => (~FormNegative(p) /\ p.h \in {5, 8, 12})

FormSeconds(p) ==
    (IF FormNegative(p) THEN 0 - 1 ELSE 1) * (p.h * 3600 + FormMinutes(p) * 60)

\* C2: on a string of the form [UTC][sign]H[sep M], ParseUTCOffset succeeds
\* exactly when H, M and the sign pass the validation rules, and the offset
\* of the returned location is then sign * (H*3600 + M*60) seconds.
C2_WellFormedAcceptedExactly ==
    (pc = "parsed" /\ form # NoForm) =>
        /\ (res.kind = "ok") <=> FormAccepted(form)
        /\ res.kind = "ok" => res.loc.offset = FormSeconds(form)

\* a well-formed "-9:30" / "-09 30" was accepted with -34200 seconds
C2_Witness ==
    /\ pc = "parsed"
    /\ form # NoForm
    /\ form.sep # ""
    /\ res.kind = "ok"
    /\ res.loc.offset = 0 - 34200

\* C5: parsing the name of the location a successful ParseUTCOffset returned
\* succeeds again and yields the same offset.
C5_RoundTrip ==
    pc = "reparsed" => (res.kind = "ok" /\ res.loc.offset = first.loc.offset)

\* the name "UTC+3:30", from a string written with a space, was parsed again
C5_Witness ==
    /\ pc = "reparsed"
    /\ first.loc.offset = 12600
    /\ input = UTC \o <<"+", "3", ":", "3", "0">>
    /\ res.kind = "ok"

(***************************************************************************)
(* Properties of Timezone.                                                 *)
(***************************************************************************)
\* the seconds a display string denotes: "UTC" is 0, "UTC+H" is H hours,
\* "UTC-H:M" is minus H hours and M minutes; anything else denotes nothing
NoOffset == [none |-> TRUE, seconds |-> 0]

DenotedOffset(name) ==
    LET rest == SubSeq(name, Len(UTC) + 1, Len(name))
        toks == Split(Tail(rest), ":")
        h    == Atoi(toks[1])
        m    == IF Len(toks) = 2 THEN Atoi(toks[2]) ELSE [err |-> FALSE, val |-> 0]
        sgn  == IF rest[1] = "-" THEN 0 - 1 ELSE 1
    IN  IF Len(name) < Len(UTC) \/ SubSeq(name, 1, Len(UTC)) # UTC THEN NoOffset
        ELSE IF rest = <<>> THEN [none |-> FALSE, seconds |-> 0]
        ELSE IF rest[1] \notin {"+", "-"} \/ Len(toks) > 2 THEN NoOffset
        ELSE IF h.err \/ m.err \/ h.val < 0 \/ m.val < 0 THEN NoOffset
        ELSE [none |-> FALSE, seconds |-> sgn * (h.val * 3600 + m.val * 60)]

\* C4: for every Timezone reachable through NewTimezone, NewTimezoneFromTime,
\* ParseTimezone and UnmarshalJSON, Offset() is the number of seconds that the
\* display string String() denotes.
C4_OffsetMatchesString ==
    DenotedOffset(String(tz)) = [none |-> FALSE, seconds |-> Offset(tz)]

\* C6: on a string that the named-zone lookup does not resolve, ParseTimezone
\* succeeds exactly when ParseUTCOffset does, and Offset() is then the offset
\* of the location ParseUTCOffset returns.
C6_FallsBackToOffsetGrammar ==
    (tzOp = "ParseTimezone" /\ LoadLocation(tzArg).kind # "ok") =>
        /\ (tzRet = "ok") <=> (ParseUTCOffset(tzArg).kind = "ok")
        /\ tzRet = "ok" => Offset(tz) = ParseUTCOffset(tzArg).loc.offset

(***************************************************************************)
(* Properties of Time.                                                     *)
(***************************************************************************)
\* the minute of the day a Time shows
MinuteOfDay(x) == Hour(x) * 60 + Minute(x)

\* C7: for a duration of d >= 0 whole minutes, AddTime returns the time with
\* minute-of-day (m + d) mod 1440 and SubTime the one with minute-of-day
\* (m - d) mod 1440, m being the minute-of-day of the receiver.
C7_AddSubModulo ==
    /\ (tmOp = "AddTime" /\ d >= 0) =>
           MinuteOfDay(out) = (MinuteOfDay(t) + d) % 1440
    /\ (tmOp = "SubTime" /\ d >= 0) =>
           MinuteOfDay(out) = (MinuteOfDay(t) - d) % 1440

\* 10:30 - 23h45m = 10:45
C7_Witness ==
    /\ tmOp = "SubTime"
    /\ t = NewTime(10, 30)
    /\ d = 1425
    /\ Hour(out) = 10
    /\ Minute(out) = 45

\* C8: t.AddTime(d).SubTime(d) equals t under EqualTime, for every duration d.
C8_AddThenSubIsIdentity ==
    tmOp = "AddTime.SubTime" => EqualTime(out, t)

\* 23:00 + 25h lands on 00:00 of the next day, and - 25h is 23:00 again
C8_Witness ==
    /\ tmOp = "AddTime.SubTime"
    /\ t = NewTime(23, 0)
    /\ d = 1500
    /\ MinuteOfDay(mid) = 0
    /\ MinuteOfDay(out) = 23 * 60

\* C9: low.RangeUp(high) is (high_m - low_m) mod 1440 minutes, so within
\* [0, 1439]; it is 0 when low and high show the same hour and minute, and
\* otherwise 1440 minutes less high.RangeUp(low).
C9_RangeUpCircular ==
    tmOp = "RangeUp" =>
        /\ outDur = (MinuteOfDay(arg) - MinuteOfDay(t)) % 1440
        /\ outDur \in 0..1439
        /\ EqualTime(t, arg) => outDur = 0
        /\ ~EqualTime(t, arg) => outDur = 1440 - RangeUp(arg, t)

\* from 22:59 to 22:00: same hour count after the borrow, 23h01m
C9_Witness ==
    /\ tmOp = "RangeUp"
    /\ t = NewTime(22, 59)
    /\ arg = NewTime(22, 0)
    /\ outDur = 23 * 60 + 1

\* C10: a.RangeUp(b) = a.SmartDiff(b) for every pair of times.
C10_RangeUpIsSmartDiff ==
    /\ tmOp = "RangeUp" => outDur = SmartDiff(t, arg)
    /\ tmOp = "SmartDiff" => outDur = RangeUp(t, arg)

\* SmartDiff from 22:30 to 01:00 went through midnight: 2h30m
C10_Witness ==
    /\ tmOp = "SmartDiff"
    /\ t = NewTime(22, 30)
    /\ arg = NewTime(1, 0)
    /\ outDur = 150

(***************************************************************************)
(* Time: minutes from the day start and till the day end.                  *)
(***************************************************************************)
CallMinutesFromDayBegin ==
    /\ tmOp = "start"
    /\ \E dayStartTime \in ArgTimes :
          /\ arg' = dayStartTime
          /\ outDur' = MinutesFromDayBegin(t, dayStartTime)
    /\ tmOp' = "MinutesFromDayBegin"
    /\ UNCHANGED <<t, d, mid, out, offsetVars, timezoneVars, laterTimeVars>>

CallMinutesTillDayEnd ==
    /\ tmOp = "start"
    /\ \E dayStartTime \in ArgTimes :
          /\ arg' = dayStartTime
          /\ outDur' = MinutesTillDayEnd(t, dayStartTime)
    /\ tmOp' = "MinutesTillDayEnd"
    /\ UNCHANGED <<t, d, mid, out, offsetVars, timezoneVars, laterTimeVars>>

NextTimeDay == CallMinutesFromDayBegin \/ CallMinutesTillDayEnd

SpecTimeDay == InitTime /\ [][NextTimeDay]_vars

\* the hours from the day start s to x: 24 - s.hour + x.hour when x.hour is
\* below s.hour, x.hour - s.hour otherwise
HoursFromDayStart(x, s) ==
    IF Hour(x) < Hour(s) THEN 24 - Hour(s) + Hour(x) ELSE Hour(x) - Hour(s)

\* C11: t.MinutesFromDayBegin(s) is hours*60 + t.minute, hours being
\* 24 - s.hour + t.hour when t.hour < s.hour and t.hour - s.hour otherwise,
\* and t.MinutesTillDayEnd(s) is 1440 - t.MinutesFromDayBegin(s).
C11_MinutesFromDayBegin ==
    /\ tmOp = "MinutesFromDayBegin" =>
           outDur = HoursFromDayStart(t, arg) * 60 + Minute(t)
    /\ tmOp = "MinutesTillDayEnd" =>
           outDur = 1440 - (HoursFromDayStart(t, arg) * 60 + Minute(t))

(***************************************************************************)
(* time.go: the comparison methods and GetTimeSortingPriority              *)
(***************************************************************************)
\* IsBefore leaving out equal times
IsBeforeExcludingEqual(x, other) ==
    IF Hour(x) > Hour(other) THEN FALSE
    ELSE IF Hour(x) = Hour(other) /\ Minute(x) >= Minute(other) THEN FALSE
    ELSE TRUE

\* Time.IsBefore(other): the receiver is before or equal to the argument
IsBefore(x, other) ==
    IF Hour(x) > Hour(other) THEN FALSE
    ELSE IF Hour(x) = Hour(other) /\ Minute(x) > Minute(other) THEN FALSE
    ELSE TRUE

\* Time.IsArgBefore(other): the argument is before or equal to the receiver
IsArgBefore(x, other) ==
    IF Hour(x) < Hour(other) THEN FALSE
    ELSE IF Hour(x) = Hour(other) /\ Minute(x) < Minute(other) THEN FALSE
    ELSE TRUE

\* Time.IsBeforeStrict(other)
IsBeforeStrict(x, other) ==
    IF Hour(x) > Hour(other) THEN FALSE
    ELSE IF Hour(x) = Hour(other) /\ Minute(x) >= Minute(other) THEN FALSE
    ELSE TRUE

\* IsArgBeforeStrict looking at the hours only
IsArgBeforeStrictHoursOnly(x, other) ==
    IF Hour(x) <= Hour(other) THEN FALSE ELSE TRUE

\* Time.IsArgBeforeStrict(other)
IsArgBeforeStrict(x, other) ==
    IF Hour(x) < Hour(other) THEN FALSE
    ELSE IF Hour(x) = Hour(other) /\ Minute(x) <= Minute(other) THEN FALSE
    ELSE TRUE

\* IsAfter leaving out equal times
IsAfterExcludingEqual(x, other) == IsArgBeforeStrict(x, other)

\* Time.IsAfter(other)
IsAfter(x, other) == IsArgBefore(x, other)

\* Time.IsArgAfter(other)
IsArgAfter(x, other) == IsBefore(x, other)

\* Time.IsAfterStrict(other)
IsAfterStrict(x, other) == IsArgBeforeStrict(x, other)

\* Time.IsArgAfterStrict(other)
IsArgAfterStrict(x, other) == IsBeforeStrict(x, other)

\* SortingPriority
LongAgoPriority == 1
BeforePriority == 2
AfterPriority == 3
NotSoonPriority == 4

\* GetTimeSortingPriority with LongAgoPriority and NotSoonPriority swapped
GetTimeSortingPrioritySwapped(toCheck, now, dayStartTime) ==
    IF IsArgBefore(dayStartTime, now)
    THEN IF IsBefore(toCheck, dayStartTime)
         THEN (IF IsBefore(toCheck, now) THEN BeforePriority ELSE AfterPriority)
         ELSE NotSoonPriority
    ELSE IF IsAfter(toCheck, dayStartTime)
         THEN (IF IsBefore(toCheck, now) THEN BeforePriority ELSE AfterPriority)
         ELSE LongAgoPriority

GetTimeSortingPriority(toCheck, now, dayStartTime) ==
    IF IsArgBefore(dayStartTime, now)
    THEN IF IsBefore(toCheck, dayStartTime)
         THEN (IF IsBefore(toCheck, now) THEN BeforePriority ELSE AfterPriority)
         ELSE LongAgoPriority
    ELSE IF IsAfter(toCheck, dayStartTime)
         THEN (IF IsBefore(toCheck, now) THEN BeforePriority ELSE AfterPriority)
         ELSE NotSoonPriority

(***************************************************************************)
(* GetTimeSortingPriority: a candidate, and one call with a current time   *)
(* and a day start.                                                        *)
(***************************************************************************)
\* the current times and day starts: hours on a grid plus 4 and 23, each at
\* 0, 15 and 59 minutes, and the empty Time
CutHours == {h \in 0..23 : h % HourStep = 0} \cup {4, 23}

CutTimes == {NewTime(h, m) : h \in CutHours, m \in {0, 15, 59}} \cup {EmptyTime}

CallGetTimeSortingPriority ==
    /\ tmOp = "start"
    /\ \E now \in CutTimes, start \in CutTimes :
          /\ arg' = now
          /\ dayStart' = start
          /\ prio' = GetTimeSortingPriority(t, now, start)
    /\ tmOp' = "GetTimeSortingPriority"
    /\ UNCHANGED <<t, d, mid, out, outDur, cmp, tmForm, tmStr, tmRet, tmJSON,
                   offsetVars, timezoneVars>>

NextPriority == CallGetTimeSortingPriority

SpecPriority == InitTime /\ [][NextPriority]_vars

\* x <= y and x < y, on the hour and then on the minute
LexLeq(x, y) == Hour(x) < Hour(y) \/ (Hour(x) = Hour(y) /\ Minute(x) <= Minute(y))

LexLess(x, y) == Hour(x) < Hour(y) \/ (Hour(x) = Hour(y) /\ Minute(x) < Minute(y))

\* the decision table of the classifier
TablePriority(candidate, now, start) ==
    IF LexLeq(now, start)
    THEN IF LexLeq(candidate, start)
         THEN (IF LexLeq(candidate, now) THEN BeforePriority ELSE AfterPriority)
         ELSE LongAgoPriority
    ELSE IF LexLeq(start, candidate)
         THEN (IF LexLeq(candidate, now) THEN BeforePriority ELSE AfterPriority)
         ELSE NotSoonPriority

\* C12: GetTimeSortingPriority(candidate, now, dayStart) is the decision
\* table: with now <= dayStart, Before or After for a candidate <= dayStart
\* (Before when candidate <= now) and LongAgo for a candidate > dayStart; with
\* now > dayStart, Before or After for a candidate >= dayStart and NotSoon for
\* a candidate < dayStart.
C12_DecisionTable ==
    tmOp = "GetTimeSortingPriority" => prio = TablePriority(t, arg, dayStart)

\* candidate 04:15, now 00:15, dayStart 04:00: LongAgo
C12_Witness ==
    /\ tmOp = "GetTimeSortingPriority"
    /\ t = NewTime(4, 15)
    /\ arg = NewTime(0, 15)
    /\ dayStart = NewTime(4, 0)
    /\ prio = LongAgoPriority

\* C13 as stated: a candidate equal to dayStart is classified Before, for
\* every now and every dayStart.
C13_DayStartIsBefore ==
    (tmOp = "GetTimeSortingPriority" /\ EqualTime(t, dayStart)) =>
        prio = BeforePriority

\* C13 as amended: a candidate equal to dayStart is classified Before when
\* dayStart <= now and After when now < dayStart, never LongAgo or NotSoon.
C13_DayStartIsBeforeOrAfter ==
    (tmOp = "GetTimeSortingPriority" /\ EqualTime(t, dayStart)) =>
        prio = (IF LexLeq(dayStart, arg) THEN BeforePriority ELSE AfterPriority)

\* candidate = dayStart = 04:00 with now 23:00 (Before)
C13_Witness ==
    /\ tmOp = "GetTimeSortingPriority"
    /\ t = NewTime(4, 0)
    /\ dayStart = NewTime(4, 0)
    /\ arg = NewTime(23, 0)
    /\ prio = BeforePriority

\* C14: a candidate equal to now is classified Before, for every now and
\* every dayStart.
C14_NowIsBefore ==
    (tmOp = "GetTimeSortingPriority" /\ EqualTime(t, arg)) =>
        prio = BeforePriority

\* candidate = now = 00:15, before the day start 04:00
C14_Witness ==
    /\ tmOp = "GetTimeSortingPriority"
    /\ t = NewTime(0, 15)
    /\ arg = NewTime(0, 15)
    /\ dayStart = NewTime(4, 0)
    /\ prio = BeforePriority

(***************************************************************************)
(* time.go: ParseTime                                                      *)
(***************************************************************************)
\* prepareNumber(s, false): s up to its first character that is no digit
RECURSIVE prepareNumber(_)
prepareNumber(s) ==
    IF Len(s) = 0 \/ Head(s) \notin DigitSet THEN <<>>
    ELSE <<Head(s)>> \o prepareNumber(Tail(s))

\* the separators ParseTime tries, in its order
seps == <<" ", ":", "-", "_", ",", ".">>

\* the body of ParseTime's loop once the string is cut in two
ParsePair(splitted) ==
    LET hour   == Atoi(prepareNumber(splitted[1]))
        minute == Atoi(prepareNumber(splitted[2]))
    IN  IF hour.err THEN [err |-> TRUE, time |-> EmptyTime]
        ELSE IF hour.val < 0 \/ hour.val > 23 THEN [err |-> TRUE, time |-> EmptyTime]
        ELSE IF minute.err THEN [err |-> TRUE, time |-> EmptyTime]
        ELSE IF minute.val < 0 \/ minute.val > 59
        THEN [err |-> TRUE, time |-> EmptyTime]
        ELSE [err |-> FALSE, time |-> NewTime(hour.val, minute.val)]

\* ParseTime's loop from the k-th separator on
RECURSIVE ParseTimeFrom(_, _)
ParseTimeFrom(s, k) ==
    IF k > Len(seps) THEN [err |-> TRUE, time |-> EmptyTime]
    ELSE LET splitted == Split(s, seps[k])
         IN  IF Len(splitted) # 2
             THEN IF Len(s) # 4 THEN ParseTimeFrom(s, k + 1)
                  ELSE ParsePair(<<SubSeq(s, 1, 2), SubSeq(s, 3, 4)>>)
             ELSE ParsePair(splitted)

\* ParseTime(s)
ParseTime(s) ==
    IF Len(s) = 0 THEN [err |-> TRUE, time |-> EmptyTime]
    ELSE ParseTimeFrom(s, 1)

(***************************************************************************)
(* ParseTime as a state machine: one call on a string.                     *)
(***************************************************************************)
\* H sep M, each number zero-padded or not; sep = "" is the bare HHMM
TimeFormString(p) ==
    Number(p.h, p.padH) \o (IF p.sep = "" THEN <<>> ELSE <<p.sep>>)
        \o Number(p.m, p.padM)

TimeFormParams ==
    {p \in [h : 0..MaxTimeH, sep : {seps[k] : k \in 1..Len(seps)} \cup {""},
             m : 0..MaxTimeM, padH : BOOLEAN, padM : BOOLEAN] :
        p.sep = "" => (p.padH /\ p.padM)}

InitParseTime ==
    /\ OffsetIdle
    /\ TimezoneIdle
    /\ t = EmptyTime
    /\ arg = EmptyTime
    /\ d = 0
    /\ mid = EmptyTime
    /\ out = EmptyTime
    /\ outDur = 0
    /\ tmOp = "start"
    /\ LaterTimeIdle

CallParseTimeForm ==
    /\ tmOp = "start"
    /\ \E p \in TimeFormParams :
          /\ tmForm' = p
          /\ tmStr' = TimeFormString(p)
          /\ tmRet' = (IF ParseTime(TimeFormString(p)).err THEN "err" ELSE "ok")
          /\ out' = ParseTime(TimeFormString(p)).time
    /\ tmOp' = "ParseTime"
    /\ UNCHANGED <<t, arg, d, mid, outDur, dayStart, prio, cmp, tmJSON,
                   offsetVars, timezoneVars>>

CallParseTimeFree ==
    /\ tmOp = "start"
    /\ \E s \in FreeStrings :
          /\ tmStr' = s
          /\ tmRet' = (IF ParseTime(s).err THEN "err" ELSE "ok")
          /\ out' = ParseTime(s).time
    /\ tmOp' = "ParseTime"
    /\ UNCHANGED <<t, arg, d, mid, outDur, dayStart, prio, cmp, tmForm, tmJSON,
                   offsetVars, timezoneVars>>

NextParseTime == CallParseTimeForm \/ CallParseTimeFree

SpecParseTime == InitParseTime /\ [][NextParseTime]_vars

\* C15: ParseTime accepts every string of two numbers joined by one of the
\* separators space, colon, hyphen, underscore, comma, period, and every bare
\* four-digit HHMM, whose hour is in 0..23 and minute in 0..59, and returns
\* that hour and minute.
C15_ParseTimeAcceptsInRange ==
    (tmOp = "ParseTime" /\ tmForm.h \in 0..23 /\ tmForm.m \in 0..59) =>
        /\ tmRet = "ok"
        /\ Hour(out) = tmForm.h
        /\ Minute(out) = tmForm.m

(***************************************************************************)
(* time.go: RoundDownToFives and RoundUpToFives                            *)
(***************************************************************************)
\* NewFromTime(x): the hour and the minute of x
NewFromTime(x) == NewTime(Hour(x), Minute(x))

\* time.Time.Add(howMuch minutes)
Add(x, howMuch) == [abs |-> x.abs + howMuch, isSet |-> x.isSet]

\* the loop of RoundDownToFives with "m < base-5" for "m <= base-5"
RECURSIVE RoundMinuteFiveStays(_, _)
RoundMinuteFiveStays(m, i) ==
    IF i > 6 THEN m
    ELSE IF m < i * 10
         THEN (IF m < i * 10 - 5 THEN i * 10 - 10 ELSE i * 10 - 5)
         ELSE RoundMinuteFiveStays(m, i + 1)

\* the loop of RoundDownToFives from its i-th round on
RECURSIVE RoundMinute(_, _)
RoundMinute(m, i) ==
    IF i > 6 THEN m
    ELSE IF m < i * 10
         THEN (IF m <= i * 10 - 5 THEN i * 10 - 10 ELSE i * 10 - 5)
         ELSE RoundMinute(m, i + 1)

\* Time.RoundDownToFives()
RoundDownToFives(x) == NewTime(Hour(x), RoundMinute(Minute(x), 1))

\* RoundUpToFives adding the 5 minutes before rounding down
RoundUpToFivesAddsFirst(x) == RoundDownToFives(Add(x, 5))

\* RoundUpToFives adding 10 minutes
RoundUpToFivesAddsTen(x) == NewFromTime(Add(RoundDownToFives(x), 10))

\* Time.RoundUpToFives()
RoundUpToFives(x) == NewFromTime(Add(RoundDownToFives(x), 5))

(***************************************************************************)
(* Rounding as a state machine: a receiver, and one call on it.            *)
(***************************************************************************)
CallRoundDownToFives ==
    /\ tmOp = "start"
    /\ out' = RoundDownToFives(t)
    /\ tmOp' = "RoundDownToFives"
    /\ UNCHANGED <<t, arg, d, mid, outDur, offsetVars, timezoneVars, laterTimeVars>>

CallRoundUpToFives ==
    /\ tmOp = "start"
    /\ out' = RoundUpToFives(t)
    /\ tmOp' = "RoundUpToFives"
    /\ UNCHANGED <<t, arg, d, mid, outDur, offsetVars, timezoneVars, laterTimeVars>>

NextTimeRound == CallRoundDownToFives \/ CallRoundUpToFives

SpecTimeRound == InitTime /\ [][NextTimeRound]_vars

\* q*10 + (0 if r <= 5 else 5), q = minute div 10, r = minute mod 10
RoundedMinute(m) == (m \div 10) * 10 + (IF m % 10 <= 5 THEN 0 ELSE 5)

RangeWrapCorrected(low, high) ==
    LET raw == (Hour(high) - Hour(low)) * 60 + (Minute(high) - Minute(low))
    IN  IF raw < 0 THEN raw + minutesInDay ELSE raw

\* Time.Range(high), in minutes
Range(low, high) ==
    (Hour(high) - Hour(low)) * 60 + (Minute(high) - Minute(low))

(***************************************************************************)
(* Range and the comparisons as a state machine: a receiver and one call   *)
(* with an argument; after Range, the call the other way round.            *)
(***************************************************************************)
CallRange ==
    /\ tmOp = "start"
    /\ \E high \in ArgTimes :
          /\ arg' = high
          /\ outDur' = Range(t, high)
    /\ tmOp' = "Range"
    /\ UNCHANGED <<t, d, mid, out, offsetVars, timezoneVars, laterTimeVars>>

\* high.Range(low) after low.Range(high)
CallRangeBack ==
    /\ tmOp = "Range"
    /\ d' = Range(arg, t)
    /\ tmOp' = "RangeBack"
    /\ UNCHANGED <<t, arg, mid, out, outDur, offsetVars, timezoneVars, laterTimeVars>>

\* every comparison method on the same receiver and argument
CallCompare ==
    /\ tmOp = "start"
    /\ \E other \in ArgTimes :
          /\ arg' = other
          /\ cmp' = [EqualTime |-> EqualTime(t, other),
                     IsBefore |-> IsBefore(t, other),
                     IsArgBefore |-> IsArgBefore(t, other),
                     IsBeforeStrict |-> IsBeforeStrict(t, other),
                     IsArgBeforeStrict |-> IsArgBeforeStrict(t, other),
                     IsAfter |-> IsAfter(t, other),
                     IsArgAfter |-> IsArgAfter(t, other),
                     IsAfterStrict |-> IsAfterStrict(t, other),
                     IsArgAfterStrict |-> IsArgAfterStrict(t, other)]
    /\ tmOp' = "Compare"
    /\ UNCHANGED <<t, d, mid, out, outDur, dayStart, prio, tmForm, tmStr, tmRet,
                   tmJSON, offsetVars, timezoneVars>>

NextTimeCompare == CallRange \/ CallRangeBack \/ CallCompare

SpecTimeCompare == InitTime /\ [][NextTimeCompare]_vars

\* C18: low.Range(high) is (high.hour - low.hour)*60 + (high.minute -
\* low.minute) minutes without wraparound: negative when high is earlier than
\* low, zero when they are equal, at most 1439 in magnitude, and the negation
\* of high.Range(low).
C18_RangeIsLinear ==
    /\ tmOp \in {"Range", "RangeBack"} =>
          /\ outDur = (Hour(arg) * 60 + Minute(arg)) - (Hour(t) * 60 + Minute(t))
          /\ LexLess(arg, t) => outDur < 0
          /\ EqualTime(t, arg) => outDur = 0
          /\ outDur <= 1439 /\ 0 - outDur <= 1439
    /\ tmOp = "RangeBack" => outDur = 0 - d

\* 12:00.Range(10:00) is -120 minutes and 10:00.Range(12:00) is 120
C18_Witness ==
    /\ tmOp = "RangeBack"
    /\ t = NewTime(12, 0)
    /\ arg = NewTime(10, 0)
    /\ outDur = 0 - 120
    /\ d = 120

\* C19: IsBefore is <= and IsAfter is >= on (hour, minute); a strict variant
\* is the inclusive one without equality; an Arg-variant is the relation with
\* the operands swapped; at least one of IsBefore, IsAfter holds, and both
\* hold exactly for equal times.
C19_Comparisons ==
    tmOp = "Compare" =>
        /\ cmp.EqualTime = (Hour(t) = Hour(arg) /\ Minute(t) = Minute(arg))
        /\ cmp.IsBefore = LexLeq(t, arg)
        /\ cmp.IsAfter = LexLeq(arg, t)
        /\ cmp.IsBeforeStrict = (cmp.IsBefore /\ ~cmp.EqualTime)
        /\ cmp.IsAfterStrict = (cmp.IsAfter /\ ~cmp.EqualTime)
        /\ cmp.IsArgBeforeStrict = (cmp.IsArgBefore /\ ~cmp.EqualTime)
        /\ cmp.IsArgAfterStrict = (cmp.IsArgAfter /\ ~cmp.EqualTime)
        /\ cmp.IsArgBefore = IsBefore(arg, t)
        /\ cmp.IsArgAfter = IsAfter(arg, t)
        /\ cmp.IsArgBeforeStrict = IsBeforeStrict(arg, t)
        /\ cmp.IsArgAfterStrict = IsAfterStrict(arg, t)
        /\ cmp.IsBefore \/ cmp.IsAfter
        /\ (cmp.IsBefore /\ cmp.IsAfter) = cmp.EqualTime

\* 10:30 against 10:00: after, strictly, and not before
C19_Witness ==
    /\ tmOp = "Compare"
    /\ t = NewTime(10, 30)
    /\ arg = NewTime(10, 0)
    /\ cmp.IsAfterStrict /\ cmp.IsArgBeforeStrict /\ ~cmp.IsBefore

(***************************************************************************)
(* time.go: String, IsZero, MarshalJSON and UnmarshalJSON of Time          *)
(***************************************************************************)
\* Time.String(): Format("15:04")
TimeString(x) == Number(Hour(x), TRUE) \o <<":">> \o Number(Minute(x), TRUE)

\* Time.IsZero()
IsZero(x) == IF x.abs = ZeroTimeAbs THEN ~x.isSet ELSE FALSE

\* MarshalJSON writing null for every 00:00
TimeMarshalJSONMidnightNull(x) ==
    IF Hour(x) = 0 /\ Minute(x) = 0 THEN JSONNull ELSE JSONString(TimeString(x))

\* Time.MarshalJSON()
TimeMarshalJSON(x) ==
    IF ~x.isSet THEN JSONNull ELSE JSONString(TimeString(x))

\* Time.UnmarshalJSON(data) on the receiver i: the receiver afterwards and how
\* the call ended
TimeUnmarshalJSON(i, data) ==
    LET str == UnmarshalString(data)
        parsed == ParseTime(str.s)
    IN  IF str.err THEN [ret |-> "err", time |-> i]
        ELSE IF Len(str.s) = 0 THEN [ret |-> "ok", time |-> i]
        ELSE IF parsed.err THEN [ret |-> "err", time |-> i]
        ELSE [ret |-> "ok", time |-> [abs |-> parsed.time.abs, isSet |-> TRUE]]

(***************************************************************************)
(* The JSON form as a state machine: a Time is marshalled, and the text is *)
(* unmarshalled into another Time.                                         *)
(***************************************************************************)
\* the Times marshalled: every time of day, the empty Time, results of
\* AddTime and SubTime on other days, and the zero instant reached by SubTime
JSONReceivers ==
    Receivers \cup {addTime(NewTime(0, 0), minutesInDay),
                    subTime(NewTime(10, 15), minutesInDay),
                    subTime(NewTime(0, 0), 0 - ZeroTimeAbs)}

\* the Times unmarshalled into
UnmarshalTargets == {EmptyTime, NewTime(10, 15)}

InitTimeJSON ==
    /\ OffsetIdle
    /\ TimezoneIdle
    /\ t \in JSONReceivers
    /\ arg = EmptyTime
    /\ d = 0
    /\ mid = EmptyTime
    /\ out = EmptyTime
    /\ outDur = 0
    /\ tmOp = "start"
    /\ LaterTimeIdle

CallTimeMarshalJSON ==
    /\ tmOp = "start"
    /\ tmJSON' = TimeMarshalJSON(t)
    /\ tmOp' = "MarshalJSON"
    /\ UNCHANGED <<t, arg, d, mid, out, outDur, dayStart, prio, cmp, tmForm, tmStr,
                   tmRet, offsetVars, timezoneVars>>

CallTimeUnmarshalJSON ==
    /\ tmOp = "MarshalJSON"
    /\ \E i \in UnmarshalTargets :
          /\ arg' = i
          /\ out' = TimeUnmarshalJSON(i, tmJSON).time
          /\ tmRet' = TimeUnmarshalJSON(i, tmJSON).ret
    /\ tmOp' = "UnmarshalJSON"
    /\ UNCHANGED <<t, d, mid, outDur, dayStart, prio, cmp, tmForm, tmStr, tmJSON,
                   offsetVars, timezoneVars>>

NextTimeJSON == CallTimeMarshalJSON \/ CallTimeUnmarshalJSON

SpecTimeJSON == InitTimeJSON /\ [][NextTimeJSON]_vars

\* the quoted zero-padded HH:MM of an hour and a minute
QuotedHHMM(h, m) ==
    JSONString(<<Digits[(h \div 10) + 1], Digits[(h % 10) + 1], ":",
                 Digits[(m \div 10) + 1], Digits[(m % 10) + 1]>>)

\* C20: a Time serializes as null exactly when it is the empty value (IsZero),
\* otherwise as the quoted zero-padded HH:MM, never as an empty string;
\* NewTime(0,0) serializes as "00:00"; unmarshalling the serialized form of a
\* non-empty Time gives a Time with the same hour and minute.
C20_SerializedForm ==
    /\ tmOp \in {"MarshalJSON", "UnmarshalJSON"} =>
          /\ (tmJSON = JSONNull) <=> IsZero(t)
          /\ ~IsZero(t) => tmJSON = QuotedHHMM(Hour(t), Minute(t))
          /\ tmJSON # JSONString(<<>>)
          /\ t = NewTime(0, 0) => tmJSON = QuotedHHMM(0, 0)
    /\ (tmOp = "UnmarshalJSON" /\ ~IsZero(t)) =>
          /\ tmRet = "ok"
          /\ EqualTime(out, t)
          /\ ~IsZero(out)

\* NewTime(0,0) marshalled as "00:00" and read back into a Time holding 10:15
C20_Witness ==
    /\ tmOp = "UnmarshalJSON"
    /\ t = NewTime(0, 0)
    /\ tmJSON = JSONString(<<"0", "0", ":", "0", "0">>)
    /\ arg = NewTime(10, 15)
    /\ out = NewTime(0, 0)

(***************************************************************************)
(* UnmarshalJSON of Timezone and of Time on a receiver that already holds  *)
(* a value: one call, with the JSON text kept in tmJSON.                   *)
(***************************************************************************)
\* the Timezones unmarshalled into
TimezoneTargets ==
    {ZeroTimezone, NewTimezoneFromTime(0), NewTimezoneFromTime(7200),
     NewTimezoneFromTime(0 - 12600)}

\* the JSON texts handed to Timezone.UnmarshalJSON on these receivers
TimezoneTexts == TimezoneJSON \cup {JSONString(s) : s \in TimezoneInputs}

\* the JSON texts handed to Time.UnmarshalJSON
TimeTexts ==
    {JSONNull, JSONNumber}
        \cup {JSONString(s) : s \in FreeStrings}
        \cup {JSONString(TimeFormString(p)) : p \in TimeFormParams}

\* either a Timezone or a Time is waiting for its call
InitUnmarshal ==
    /\ OffsetIdle
    /\ tzArg = <<>>
    /\ tzRet = "ok"
    /\ arg = EmptyTime
    /\ d = 0
    /\ mid = EmptyTime
    /\ out = EmptyTime
    /\ outDur = 0
    /\ LaterTimeIdle
    /\ \/ tz \in TimezoneTargets /\ tzOp = "start" /\ t = EmptyTime /\ tmOp = "idle"
       \/ tz = ZeroTimezone /\ tzOp = "idle" /\ t \in UnmarshalTargets /\ tmOp = "start"

\* err := json.Unmarshal(data, &tz)
CallTimezoneUnmarshalJSONOn ==
    /\ tzOp = "start"
    /\ \E data \in TimezoneTexts :
          LET r == TimezoneUnmarshalJSON(tz, data)
          IN  /\ tz' = r.tz
              /\ tzArg' = data.s
              /\ tzRet' = r.ret
              /\ tmJSON' = data
    /\ tzOp' = "UnmarshalJSON"
    /\ UNCHANGED <<t, arg, d, mid, out, outDur, tmOp, dayStart, prio, cmp, tmForm,
                   tmStr, tmRet, offsetVars>>

\* err := json.Unmarshal(data, &t)
CallTimeUnmarshalJSONOn ==
    /\ tmOp = "start"
    /\ \E data \in TimeTexts :
          LET r == TimeUnmarshalJSON(t, data)
          IN  /\ t' = r.time
              /\ tmStr' = data.s
              /\ tmRet' = r.ret
              /\ tmJSON' = data
    /\ tmOp' = "UnmarshalJSON"
    /\ UNCHANGED <<arg, d, mid, out, outDur, dayStart, prio, cmp, tmForm,
                   offsetVars, timezoneVars>>

NextUnmarshal == CallTimezoneUnmarshalJSONOn \/ CallTimeUnmarshalJSONOn

SpecUnmarshal == InitUnmarshal /\ [][NextUnmarshal]_vars

\* a JSON text that is null or the empty string
EmptyText(data) == data = JSONNull \/ data = JSONString(<<>>)

\* a JSON text that is a non-empty string
StringText(data) == data.kind = "string" /\ Len(data.s) > 0

\* C21, for one call of Timezone.UnmarshalJSON
TimezoneFrame ==
    (tzOp = "start" /\ tzOp' = "UnmarshalJSON") =>
        /\ EmptyText(tmJSON') => (tz' = tz /\ tzRet' = "ok")
        /\ (StringText(tmJSON') /\ ParseTimezone(tmJSON'.s).ret # "ok") =>
               (tz' = tz /\ tzRet' = "err")
        /\ tz' # tz => (StringText(tmJSON') /\ ParseTimezone(tmJSON'.s).ret = "ok")

\* C21, for one call of Time.UnmarshalJSON
TimeFrame ==
    (tmOp = "start" /\ tmOp' = "UnmarshalJSON") =>
        /\ EmptyText(tmJSON') => (t' = t /\ tmRet' = "ok")
        /\ (StringText(tmJSON') /\ ParseTime(tmJSON'.s).err) =>
               (t' = t /\ tmRet' = "err")
        /\ t' # t => (StringText(tmJSON') /\ ~ParseTime(tmJSON'.s).err)

\* C21: UnmarshalJSON of Timezone and of Time leaves the receiver unchanged
\* and reports no error on the empty string or null, leaves it unchanged and
\* returns an error on a string that fails to parse, and changes the receiver
\* only on a successful parse.
C21_UnmarshalFrame == [][TimezoneFrame /\ TimeFrame]_vars

\* C22: for every Timezone built by NewTimezone, NewTimezoneFromTime or
\* ParseTimezone, the location returned by Loc() has a UTC offset equal to
\* Offset(), with the same sign.
C22_LocOffsetIsOffset ==
    (tzOp \in {"NewTimezone", "NewTimezoneFromTime", "ParseTimezone"}
        /\ tzRet = "ok") =>
        Loc(tz).offset = Offset(tz)

(***************************************************************************)
(* RoundUpToFives against the order its comment gives: the receiver is     *)
(* rounded up, and then 5 minutes are added to it and the sum rounded down.*)
(***************************************************************************)
\* NewFromTime(t.Add(5 * time.Minute)).RoundDownToFives() after t.RoundUpToFives()
CallAddThenRoundDown ==
    /\ tmOp = "RoundUpToFives"
    /\ mid' = RoundDownToFives(NewFromTime(Add(t, 5)))
    /\ tmOp' = "AddThenRoundDown"
    /\ UNCHANGED <<t, arg, d, out, outDur, offsetVars, timezoneVars, laterTimeVars>>

NextRoundOrder == CallRoundUpToFives \/ CallAddThenRoundDown

SpecRoundOrder == InitTime /\ [][NextRoundOrder]_vars

SeqNewTimes == {NewTime(h, m) : h \in {0, 10, 23}, m \in {0, 1, 15, 58, 59}}

\* the strings handed to ParseTime in a sequence
SeqStrings ==
    {<<"1", "0", ":", "3", "0">>, <<"1", "0", "3", "0">>, <<"0", "0", "0", "0">>,
     <<"0", ":", "0">>, <<"2", "3", "-", "5", "9">>, <<"2", "5", ":", "0", "0">>,
     <<"a", "b", "c", "d">>, <<>>}

\* the durations handed to AddTime and SubTime in a sequence, in minutes; the
\* last one takes SubTime from 00:00 to the zero instant of time.Time
SeqDurations ==
    {0, 1, 5, 60, 1439, 1440, 1441, 2000,
     0 - 1, 0 - 5, 0 - 60, 0 - 1439, 0 - 1440, 0 - 1441, 0 - 2000,
     0 - ZeroTimeAbs}

\* the instants a sequence is followed through: MaxDays days either side of
\* time.Date(0, 0, 0, ...), and the day of the zero instant
InWindow(x) ==
    \/ x.abs >= 0 - MaxDays * minutesInDay /\ x.abs <= MaxDays * minutesInDay
    \/ x.abs >= ZeroTimeAbs /\ x.abs < ZeroTimeAbs + minutesInDay

SeqNewTime ==
    /\ \E x \in SeqNewTimes : t' = x
    /\ tmOp' = "NewTime"
    /\ tmRet' = "ok"
    /\ UNCHANGED <<arg, d, mid, out, outDur, dayStart, prio, cmp, tmForm, tmStr,
                   tmJSON, offsetVars, timezoneVars>>

\* t, err = ParseTime(s)
SeqParseTime ==
    /\ \E s \in SeqStrings :
          /\ t' = ParseTime(s).time
          /\ tmRet' = (IF ParseTime(s).err THEN "err" ELSE "ok")
    /\ tmOp' = "ParseTime"
    /\ UNCHANGED <<arg, d, mid, out, outDur, dayStart, prio, cmp, tmForm, tmStr,
                   tmJSON, offsetVars, timezoneVars>>

SeqAddTime ==
    /\ \E n \in SeqDurations :
          /\ InWindow(AddTime(t, n))
          /\ t' = AddTime(t, n)
    /\ tmOp' = "AddTime"
    /\ tmRet' = "ok"
    /\ UNCHANGED <<arg, d, mid, out, outDur, dayStart, prio, cmp, tmForm, tmStr,
                   tmJSON, offsetVars, timezoneVars>>

SeqSubTime ==
    /\ \E n \in SeqDurations :
          /\ InWindow(SubTime(t, n))
          /\ t' = SubTime(t, n)
    /\ tmOp' = "SubTime"
    /\ tmRet' = "ok"
    /\ UNCHANGED <<arg, d, mid, out, outDur, dayStart, prio, cmp, tmForm, tmStr,
                   tmJSON, offsetVars, timezoneVars>>

SeqRoundDownToFives ==
    /\ t' = RoundDownToFives(t)
    /\ tmOp' = "RoundDownToFives"
    /\ tmRet' = "ok"
    /\ UNCHANGED <<arg, d, mid, out, outDur, dayStart, prio, cmp, tmForm, tmStr,
                   tmJSON, offsetVars, timezoneVars>>

SeqRoundUpToFives ==
    /\ t' = RoundUpToFives(t)
    /\ tmOp' = "RoundUpToFives"
    /\ tmRet' = "ok"
    /\ UNCHANGED <<arg, d, mid, out, outDur, dayStart, prio, cmp, tmForm, tmStr,
                   tmJSON, offsetVars, timezoneVars>>

NextTimeSeq ==
    \/ SeqNewTime
    \/ SeqParseTime
    \/ SeqAddTime
    \/ SeqSubTime
    \/ SeqRoundDownToFives
    \/ SeqRoundUpToFives

SpecTimeSeq == InitTime /\ [][NextTimeSeq]_vars

\* C24: after any sequence of NewTime, ParseTime, AddTime, SubTime,
\* RoundDownToFives and RoundUpToFives calls the Time has its hour in 0..23
\* and its minute in 0..59, every value these calls return is non-empty
\* (IsZero() is false), and only EmptyTime reports IsZero() true.
C24_ResultsInRangeAndSet ==
    /\ (tmOp # "start" /\ tmRet = "ok") =>
          /\ Hour(t) \in 0..23
          /\ Minute(t) \in 0..59
          /\ Hour(t) * 60 + Minute(t) \in 0..1439
          /\ ~IsZero(t)
    /\ IsZero(t) => t = EmptyTime

\* SubTime has taken 00:00 to the zero instant of time.Time, which reads
\* 00:00 and is not empty
C24_Witness ==
    /\ tmOp = "SubTime"
    /\ t.abs = ZeroTimeAbs
    /\ Hour(t) = 0 /\ Minute(t) = 0
    /\ ~IsZero(t)

====
